---- MODULE Spec2Model ----
(***************************************************************************)
(* A model of public/about-blank.js, the about:blank launcher.  The script *)
(* resolves a configuration at evaluation, installs a public API on the    *)
(* host window, and (when enabled) defers one automatic launch().  Every   *)
(* handler is synchronous JavaScript, so each one is a single action; the  *)
(* browser's answers (window.open's result, thrown errors, whether a       *)
(* close request is honoured) are inputs drawn with \E.                    *)
(***************************************************************************)
EXTENDS Naturals, Sequences, FiniteSets

VARIABLES
  hostGlobals,  \* the host window's own properties the script reads (aboutBlankConfig)
  config,       \* the live configuration object (line 48), shared by reference
  topAccess,    \* what evaluating `window !== window.top` does on this page
  userAgent,    \* navigator.userAgent, as its sequence of product tokens
  trigger,      \* the automatic trigger registered at lines 238-246
  location,     \* window.location.href of the original context
  closed,       \* window.closed of the original context
  windows,      \* the browsing contexts window.open has created, in order
  popup,        \* local `popup` of the most recent launch()
  currentUrl,   \* local `currentUrl` of the most recent launch()
  console,      \* lines written to the console by the most recent launch()/timer callback
  alerts,       \* alerts shown by the most recent launch()
  uncaught,     \* whether the most recent handler ended with an uncaught exception
  openCalls,    \* number of window.open calls made so far
  closeCalls,   \* number of window.close() requests made on the original context
  timers,       \* number of pending Phase 2 timer callbacks (line 189)
  replaceLog,   \* location.replace attempts of the most recent Phase 2 callback
  launches,     \* number of launch() calls run so far
  configCalls   \* number of setConfig/enable/disable calls run so far

vars == <<hostGlobals, config, topAccess, userAgent, trigger, location, closed,
          windows, popup, currentUrl, console, alerts, uncaught,
          openCalls, closeCalls, timers, replaceLog, launches, configCalls>>

\* Bounds of the exploration.
MaxLaunches == 2
MaxConfigCalls == 1

(***************************************************************************)
(* JavaScript values.  A leaf value is a record [t, v]; an object is a     *)
(* function from its own property names to values.                         *)
(***************************************************************************)
Undefined == [t |-> "undefined", v |-> ""]
JsTrue == [t |-> "boolean", v |-> "true"]
JsFalse == [t |-> "boolean", v |-> "false"]
JsStr(s) == [t |-> "string", v |-> s]
JsArray(items) == [t |-> "array", v |-> "", items |-> items]

\* {} : the object with no own properties.
EmptyObject == [k \in {} |-> Undefined]

\* obj.k : a property read; an absent property reads as undefined.
Get(obj, k) == IF k \in DOMAIN obj THEN obj[k] ELSE Undefined

\* ToBoolean, as `if (x)` and `!x` apply it.
Truthy(x) ==
  CASE x.t = "undefined" -> FALSE
    [] x.t = "boolean" -> x.v = "true"
    [] x.t = "string" -> x.v # ""
    [] OTHER -> TRUE

\* ToString, as a DOMString setter and a template literal apply it.
ToDOMString(x) ==
  CASE x.t = "undefined" -> "undefined"
    [] x.t = "array" -> "array"
    [] OTHER -> x.v

\* Object.assign(target, source): every own property of source is copied over
\* target's, whole value by whole value; nothing is merged below the first level.
ObjectAssign(target, source) ==
  [k \in (DOMAIN target) \cup (DOMAIN source) |->
     IF k \in DOMAIN source THEN source[k] ELSE target[k]]

(***************************************************************************)
(* Lines 13-45: the default configuration.                                 *)
(***************************************************************************)
DefaultTitle == "My Drive - Google Drive"
DefaultFavicon == "https://ssl.gstatic.com/docs/doclist/images/drive_2022q3_32dp.png"
DefaultUrls ==
  << "https://classroom.google.com", "https://drive.google.com", "https://google.com",
     "https://docs.google.com", "https://slides.google.com", "https://kahoot.it",
     "https://clever.com", "https://khanacademy.org", "https://wikipedia.org" >>
DefaultMessage == "Leave Site?"

defaultConfig ==
  [ enabled |-> JsTrue,
    skipFirefox |-> JsTrue,
    skipIframes |-> JsTrue,
    disguise |-> [ title |-> JsStr(DefaultTitle), favicon |-> JsStr(DefaultFavicon) ],
    redirect |-> [ enabled |-> JsTrue, urls |-> JsArray(DefaultUrls) ],
    protection |-> [ exitConfirmation |-> JsTrue,
                     confirmationMessage |-> JsStr(DefaultMessage) ] ]

Groups == {"disguise", "redirect", "protection"}
TopLeaves == {"enabled", "skipFirefox", "skipIframes"}

\* (user && user.group) || {} for a user record whose groups, when supplied, are objects.
UserGroup(globals, g) ==
  IF "aboutBlankConfig" \in DOMAIN globals /\ g \in DOMAIN globals.aboutBlankConfig
  THEN globals.aboutBlankConfig[g]
  ELSE EmptyObject

\* window.aboutBlankConfig || {}
UserConfig(globals) ==
  IF "aboutBlankConfig" \in DOMAIN globals THEN globals.aboutBlankConfig ELSE EmptyObject

\* MergeConfig without lines 49-51: the top-level assignment alone.
MergeConfigTopLevelOnly(base, globals) ==
  ObjectAssign(ObjectAssign(EmptyObject, base), UserConfig(globals))

\* Lines 48-51 with `base` in the place of defaultConfig: the top level is assigned
\* key by key, then each of the three groups is rebuilt from the base group and the
\* user's group.
MergeConfig(base, globals) ==
  LET top == ObjectAssign(ObjectAssign(EmptyObject, base), UserConfig(globals))
      grp(g) == ObjectAssign(ObjectAssign(EmptyObject, base[g]), UserGroup(globals, g))
  IN [k \in DOMAIN top |-> IF k \in Groups THEN grp(k) ELSE top[k]]

(***************************************************************************)
(* Lines 53-69: the environment checks.                                    *)
(***************************************************************************)
\* Evaluating `window !== window.top`: "true", "false", or "throw" when reading
\* the top context raises a security error.
TopComparison ==
  CASE topAccess = "top" -> "false"
    [] topAccess = "nested" -> "true"
    [] OTHER -> "throw"

\* isInFrame with `return false` in the catch.
isInFrameCatchFalse == IF TopComparison = "throw" THEN "false" ELSE TopComparison

\* isInFrame(): the comparison inside try, `return true` in the catch.
isInFrame == IF TopComparison = "throw" THEN "true" ELSE TopComparison

\* String.prototype.includes over the agent string's tokens.
Includes(tokens, word) == \E i \in 1..Len(tokens) : tokens[i] = word

\* isFirefox()
isFirefox == Includes(userAgent, "Firefox")

\* getRandomRedirectUrl(): the values Math.random can select; undefined when the
\* list is missing or empty.
getRandomRedirectUrl ==
  LET urls == Get(config.redirect, "urls")
  IN IF urls.t = "array" /\ Len(urls.items) > 0
     THEN { JsStr(urls.items[i]) : i \in 1..Len(urls.items) }
     ELSE { Undefined }

(***************************************************************************)
(* Lines 82-136: building the popup's document.                            *)
(***************************************************************************)
\* The document of a freshly opened about:blank context.
BlankDoc ==
  [ title |-> "", head |-> <<>>, body |-> <<>>,
    bodyStyle |-> [ margin |-> "", padding |-> "" ] ]

FrameStyle ==
  [ position |-> "fixed", top |-> "0", bottom |-> "0", left |-> "0", right |-> "0",
    border |-> "none", outline |-> "none", width |-> "100%", height |-> "100%",
    margin |-> "0", padding |-> "0" ]

\* setupIframe pointing the frame at the popup's own blank address.
setupIframeBlank(url) == [ tag |-> "iframe", style |-> FrameStyle, src |-> "about:blank" ]

\* setupIframe(doc, currentUrl): the element it returns (not yet attached).
setupIframe(url) == [ tag |-> "iframe", style |-> FrameStyle, src |-> url ]

\* setupDisguise(doc): the title setter stringifies its argument; the favicon link
\* is appended only for a truthy favicon.
setupDisguise(doc) ==
  LET titled == [doc EXCEPT !.title = ToDOMString(Get(config.disguise, "title"))]
      favicon == Get(config.disguise, "favicon")
  IN IF Truthy(favicon)
     THEN [titled EXCEPT !.head =
             Append(@, [ tag |-> "link", rel |-> "icon", href |-> ToDOMString(favicon) ])]
     ELSE titled

\* addExitProtection(doc): nothing unless exitConfirmation is truthy; the message is
\* interpolated into the script's text.
addExitProtection(doc) ==
  IF ~Truthy(Get(config.protection, "exitConfirmation"))
  THEN doc
  ELSE [doc EXCEPT !.head =
          Append(@, [ tag |-> "script", handler |-> "onbeforeunload",
                      message |-> ToDOMString(Get(config.protection, "confirmationMessage")) ])]

\* Lines 179-181: zero the body's margin and padding, then append the frame.
AttachFrame(doc, iframe) ==
  [doc EXCEPT !.bodyStyle = [ margin |-> "0", padding |-> "0" ],
              !.body = Append(@, iframe)]

(***************************************************************************)
(* Lines 141-210: launch().                                                *)
(***************************************************************************)
LogDisabled == "About:blank launcher is disabled"
LogIframe == "Skipping about:blank launch - already in iframe"
LogFirefox == "Skipping about:blank launch - Firefox detected"
LogRedirect == "Could not close tab, redirecting to new tab page"
ErrFailed == "Failed to launch about:blank popup:"
AlertPopups == "Please allow popups to use about:blank mode."
AlertFailed == "Failed to open stealth mode. The page will load normally."

NoPopup == [ kind |-> "unassigned", id |-> 0 ]
NullPopup == [ kind |-> "null", id |-> 0 ]
NoUrl == ""

\* GuardOf with the enabled test after the environment checks.
GuardEnabledLast(cfg) ==
  IF Truthy(Get(cfg, "skipIframes")) /\ isInFrame = "throw" THEN "throw"
  ELSE IF Truthy(Get(cfg, "skipIframes")) /\ isInFrame = "true" THEN "iframe"
  ELSE IF Truthy(Get(cfg, "skipFirefox")) /\ isFirefox THEN "firefox"
  ELSE IF ~Truthy(Get(cfg, "enabled")) THEN "disabled"
  ELSE "pass"

\* GuardOf with the frame check not gated by skipIframes.
GuardIgnoringSkipIframes(cfg) ==
  IF ~Truthy(Get(cfg, "enabled")) THEN "disabled"
  ELSE IF isInFrame = "throw" THEN "throw"
  ELSE IF isInFrame = "true" THEN "iframe"
  ELSE IF Truthy(Get(cfg, "skipFirefox")) /\ isFirefox THEN "firefox"
  ELSE "pass"

\* Lines 143-158 reading the configuration cfg: the three early returns, in order.
\* "throw" is an exception leaving isInFrame(), which these lines do not catch.
GuardOf(cfg) ==
  IF ~Truthy(Get(cfg, "enabled")) THEN "disabled"
  ELSE IF Truthy(Get(cfg, "skipIframes")) /\ isInFrame = "throw" THEN "throw"
  ELSE IF Truthy(Get(cfg, "skipIframes")) /\ isInFrame = "true" THEN "iframe"
  ELSE IF Truthy(Get(cfg, "skipFirefox")) /\ isFirefox THEN "firefox"
  ELSE "pass"

\* The guard as launch() evaluates it, on the live configuration.
Guard == GuardOf(config)

\* What a launch() leaves behind when it returns before line 160.
Halted(lines, threw) ==
  [ console |-> lines, alerts |-> <<>>, uncaught |-> threw,
    popup |-> NoPopup, currentUrl |-> NoUrl,
    windows |-> windows, openCalls |-> openCalls,
    closeCalls |-> closeCalls, timers |-> timers, closed |-> closed ]

\* Caught with the error logged and thrown again.
CaughtRethrows(wins, handle) ==
  [ console |-> <<ErrFailed>>, alerts |-> <<>>, uncaught |-> TRUE,
    popup |-> handle, currentUrl |-> location,
    windows |-> wins, openCalls |-> openCalls + 1,
    closeCalls |-> closeCalls, timers |-> timers, closed |-> closed ]

\* Lines 206-209: the catch clause, after window.open has been called and has left
\* the contexts `wins`.
Caught(wins, handle) ==
  [ console |-> <<ErrFailed>>, alerts |-> <<AlertFailed>>, uncaught |-> FALSE,
    popup |-> handle, currentUrl |-> location,
    windows |-> wins, openCalls |-> openCalls + 1,
    closeCalls |-> closeCalls, timers |-> timers, closed |-> closed ]

\* Disposal that does not read redirect.enabled.
DisposalUnconditional(wins, handle, closeHonoured) ==
  [ console |-> <<>>, alerts |-> <<>>, uncaught |-> FALSE,
    popup |-> handle, currentUrl |-> location,
    windows |-> wins, openCalls |-> openCalls + 1,
    closeCalls |-> closeCalls + 1,
    timers |-> timers + 1,
    closed |-> (closed \/ closeHonoured) ]

\* Lines 183-204: after the frame is attached.  With redirect.enabled truthy the
\* original context is asked to close (the browser honours it or not) and the
\* Phase 2 callback is scheduled.
Disposal(wins, handle, closeHonoured) ==
  LET dispose == Truthy(Get(config.redirect, "enabled"))
  IN [ console |-> <<>>, alerts |-> <<>>, uncaught |-> FALSE,
       popup |-> handle, currentUrl |-> location,
       windows |-> wins, openCalls |-> openCalls + 1,
       closeCalls |-> IF dispose THEN closeCalls + 1 ELSE closeCalls,
       timers |-> IF dispose THEN timers + 1 ELSE timers,
       closed |-> IF dispose THEN (closed \/ closeHonoured) ELSE closed ]

\* Blocked without its `return`: the alert is shown and the function runs on.
BlockedWithoutReturn(wins, handle) ==
  [ Disposal(wins, handle, FALSE) EXCEPT !.alerts = <<AlertPopups>> ]

\* Lines 166-169: the handle is null or reports closed.
Blocked(wins, handle) ==
  [ console |-> <<>>, alerts |-> <<AlertPopups>>, uncaught |-> FALSE,
    popup |-> handle, currentUrl |-> location,
    windows |-> wins, openCalls |-> openCalls + 1,
    closeCalls |-> closeCalls, timers |-> timers, closed |-> closed ]

\* TryBlock with the frame attached before the disguise and the protection script.
TryBlockFrameFirst(openResult, fault, closeHonoured) ==
  LET handle == [ kind |-> "window", id |-> Len(windows) + 1 ]
      with(doc, isClosed) == Append(windows, [ closed |-> isClosed, doc |-> doc ])
      framed == AttachFrame(BlankDoc, setupIframe(location))
  IN CASE openResult = "throws" -> Caught(windows, NoPopup)
       [] openResult = "null" -> Blocked(windows, NullPopup)
       [] openResult = "closed" -> Blocked(with(BlankDoc, TRUE), handle)
       [] OTHER ->
            IF fault = "body"
            THEN Caught(with(BlankDoc, FALSE), handle)
            ELSE Disposal(with(addExitProtection(setupDisguise(framed)), FALSE),
                          handle, closeHonoured)

\* TryBlock with the close request and the timer placed before the frame is attached.
TryBlockDisposesBeforeBuild(openResult, fault, closeHonoured) ==
  LET handle == [ kind |-> "window", id |-> Len(windows) + 1 ]
      with(doc, isClosed) == Append(windows, [ closed |-> isClosed, doc |-> doc ])
      protected == addExitProtection(setupDisguise(BlankDoc))
      disposed(wins) == Disposal(wins, handle, closeHonoured)
  IN CASE openResult = "throws" -> Caught(windows, NoPopup)
       [] openResult = "null" -> Blocked(windows, NullPopup)
       [] openResult = "closed" -> Blocked(with(BlankDoc, TRUE), handle)
       [] OTHER ->
            IF fault = "body"
            THEN [ disposed(with(protected, FALSE)) EXCEPT
                     !.console = <<ErrFailed>>, !.alerts = <<AlertFailed>> ]
            ELSE disposed(with(AttachFrame(protected, setupIframe(location)), FALSE))

\* Lines 160-209: the try block.  openResult is what window.open does ("throws",
\* "null", "closed", "open"); fault is the statement of the document population
\* at which the browser raises an error ("none", or "body" when doc.body cannot be
\* written at line 179).
TryBlock(openResult, fault, closeHonoured) ==
  LET handle == [ kind |-> "window", id |-> Len(windows) + 1 ]
      with(doc, isClosed) == Append(windows, [ closed |-> isClosed, doc |-> doc ])
      disguised == setupDisguise(BlankDoc)
      iframe == setupIframe(location)
      protected == addExitProtection(disguised)
  IN CASE openResult = "throws" -> Caught(windows, NoPopup)
       [] openResult = "null" -> Blocked(windows, NullPopup)
       [] openResult = "closed" -> Blocked(with(BlankDoc, TRUE), handle)
       [] OTHER ->
            IF fault = "body"
            THEN Caught(with(protected, FALSE), handle)
            ELSE Disposal(with(AttachFrame(protected, iframe), FALSE),
                          handle, closeHonoured)

\* LaunchOutcome that does nothing once an earlier launch has opened a popup.
LaunchOutcomeDeduplicates(openResult, fault, closeHonoured) ==
  CASE Guard = "disabled" -> Halted(<<LogDisabled>>, FALSE)
    [] Guard = "throw" -> Halted(<<>>, TRUE)
    [] Guard = "iframe" -> Halted(<<LogIframe>>, FALSE)
    [] Guard = "firefox" -> Halted(<<LogFirefox>>, FALSE)
    [] windows # <<>> -> Halted(<<>>, FALSE)
    [] OTHER -> TryBlock(openResult, fault, closeHonoured)

\* The whole of launchInAboutBlank, as the values it leaves.
LaunchOutcome(openResult, fault, closeHonoured) ==
  CASE Guard = "disabled" -> Halted(<<LogDisabled>>, FALSE)
    [] Guard = "throw" -> Halted(<<>>, TRUE)
    [] Guard = "iframe" -> Halted(<<LogIframe>>, FALSE)
    [] Guard = "firefox" -> Halted(<<LogFirefox>>, FALSE)
    [] OTHER -> TryBlock(openResult, fault, closeHonoured)

\* What the browser can answer in one launch(): window.open's result, the faulting
\* statement when a usable handle is populated, and whether a close request made
\* after a complete build is honoured.
BrowserAnswers ==
  { <<o, "none", FALSE>> : o \in {"throws", "null", "closed"} }
    \cup { <<"open", "body", FALSE>> }
    \cup { <<"open", "none", c>> : c \in BOOLEAN }

launchInAboutBlank ==
  \E answer \in BrowserAnswers :
    LET r == LaunchOutcome(answer[1], answer[2], answer[3])
    IN /\ launches < MaxLaunches
       /\ launches' = launches + 1
       /\ console' = r.console
       /\ alerts' = r.alerts
       /\ uncaught' = r.uncaught
       /\ popup' = r.popup
       /\ currentUrl' = r.currentUrl
       /\ windows' = r.windows
       /\ openCalls' = r.openCalls
       /\ closeCalls' = r.closeCalls
       /\ timers' = r.timers
       /\ closed' = r.closed
       /\ UNCHANGED <<hostGlobals, config, topAccess, userAgent, location,
                      replaceLog, configCalls>>

\* AboutBlankLauncher.launch(), called by the host page.
Launch == launchInAboutBlank /\ UNCHANGED trigger

\* Lines 241 and 244: the DOMContentLoaded listener or the 100 ms timer runs launch.
AutoLaunch ==
  /\ trigger \in {"listener", "timer"}
  /\ trigger' = "fired"
  /\ launchInAboutBlank

(***************************************************************************)
(* Lines 189-203: the Phase 2 callback.                                    *)
(***************************************************************************)
ChromeNewTab == "chrome://newtab/"
AboutNewTab == "about:newtab"
AboutBlank == "about:blank"

\* The destinations whose navigation the browser may refuse by throwing.  A
\* replace() of the context's own location with about:blank parses and is
\* same-origin, so the browser never throws for it.
Refusable == {ChromeNewTab, AboutNewTab}

\* FallbackChain without the middle candidate.
FallbackChainSkipsSecond(refused) ==
  IF ChromeNewTab \notin refused
  THEN << [ url |-> ChromeNewTab, threw |-> FALSE ] >>
  ELSE << [ url |-> ChromeNewTab, threw |-> TRUE ], [ url |-> AboutBlank, threw |-> FALSE ] >>

\* Lines 193-201: the nested try/catch chain, as the list of replace() calls made
\* and whether each threw; refused is the set of destinations the browser refuses.
FallbackChain(refused) ==
  IF ChromeNewTab \notin refused
  THEN << [ url |-> ChromeNewTab, threw |-> FALSE ] >>
  ELSE IF AboutNewTab \notin refused
  THEN << [ url |-> ChromeNewTab, threw |-> TRUE ], [ url |-> AboutNewTab, threw |-> FALSE ] >>
  ELSE << [ url |-> ChromeNewTab, threw |-> TRUE ], [ url |-> AboutNewTab, threw |-> TRUE ],
          [ url |-> AboutBlank, threw |-> AboutBlank \in refused ] >>

\* Phase2 navigating the most recent popup as well as the original context.
Phase2NavigatesPopup ==
  \E refused \in SUBSET Refusable :
    LET chain == FallbackChain(refused)
        last == chain[Len(chain)]
        navigated == [ i \in 1..Len(windows) |->
                         IF i = Len(windows)
                         THEN [ windows[i] EXCEPT !.doc = BlankDoc ]
                         ELSE windows[i] ]
    IN /\ timers > 0
       /\ timers' = timers - 1
       /\ alerts' = <<>>
       /\ IF closed
          THEN /\ console' = <<>>
               /\ replaceLog' = <<>>
               /\ uncaught' = FALSE
               /\ UNCHANGED <<location, windows>>
          ELSE /\ console' = <<LogRedirect>>
               /\ replaceLog' = chain
               /\ uncaught' = last.threw
               /\ location' = last.url
               /\ windows' = navigated
       /\ UNCHANGED <<hostGlobals, config, topAccess, userAgent, trigger, closed,
                      popup, currentUrl, openCalls, closeCalls,
                      launches, configCalls>>

\* Phase2 reading config.enabled and config.redirect.enabled when the timer fires.
Phase2ReadsLiveConfig ==
  \E refused \in SUBSET Refusable :
    LET chain == FallbackChain(refused)
        last == chain[Len(chain)]
        skip == \/ closed
                \/ ~Truthy(Get(config, "enabled"))
                \/ ~Truthy(Get(config.redirect, "enabled"))
    IN /\ timers > 0
       /\ timers' = timers - 1
       /\ alerts' = <<>>
       /\ IF skip
          THEN /\ console' = <<>>
               /\ replaceLog' = <<>>
               /\ uncaught' = FALSE
               /\ UNCHANGED location
          ELSE /\ console' = <<LogRedirect>>
               /\ replaceLog' = chain
               /\ uncaught' = last.threw
               /\ location' = last.url
       /\ UNCHANGED <<hostGlobals, config, topAccess, userAgent, trigger, closed,
                      windows, popup, currentUrl, openCalls, closeCalls,
                      launches, configCalls>>

\* The setTimeout callback of line 189.
Phase2 ==
  \E refused \in SUBSET Refusable :
    LET chain == FallbackChain(refused)
        last == chain[Len(chain)]
    IN /\ timers > 0
       /\ timers' = timers - 1
       /\ alerts' = <<>>
       /\ IF closed
          THEN /\ console' = <<>>
               /\ replaceLog' = <<>>
               /\ uncaught' = FALSE
               /\ UNCHANGED location
          ELSE /\ console' = <<LogRedirect>>
               /\ replaceLog' = chain
               /\ uncaught' = last.threw
               /\ location' = IF last.threw THEN location ELSE last.url
       /\ UNCHANGED <<hostGlobals, config, topAccess, userAgent, trigger, closed,
                      windows, popup, currentUrl, openCalls, closeCalls,
                      launches, configCalls>>

(***************************************************************************)
(* Lines 215-235: the public API.                                          *)
(***************************************************************************)
CustomTitle == "Notes"
CustomMessage == "Stay?"

\* The partial records the host page passes to setConfig.
SetConfigArguments ==
  { [ redirect |-> [ enabled |-> JsFalse ] ],
    [ disguise |-> [ favicon |-> JsStr("") ] ],
    [ protection |-> [ exitConfirmation |-> JsFalse ] ],
    [ protection |-> [ exitConfirmation |-> JsTrue ] ],
    [ skipIframes |-> JsFalse ],
    [ skipFirefox |-> JsFalse ] }

\* What a call that only writes the configuration leaves alone.
ConfigCallFrame ==
  /\ configCalls < MaxConfigCalls
  /\ configCalls' = configCalls + 1
  /\ uncaught' = FALSE
  /\ UNCHANGED <<hostGlobals, topAccess, userAgent, trigger, location, closed,
                 windows, popup, currentUrl, console, alerts, openCalls,
                 closeCalls, timers, replaceLog, launches>>

\* setConfig(newConfig): Object.assign(config, newConfig).
setConfig(newConfig) ==
  /\ config' = ObjectAssign(config, newConfig)
  /\ ConfigCallFrame

SetConfig == \E newConfig \in SetConfigArguments : setConfig(newConfig)

\* enable()
enable ==
  /\ config' = [config EXCEPT !.enabled = JsTrue]
  /\ ConfigCallFrame

\* disable()
disable ==
  /\ config' = [config EXCEPT !.enabled = JsFalse]
  /\ ConfigCallFrame

\* The value of line 233's expression; "throw" when isInFrame() lets an exception out.
SupportedValue ==
  IF isInFrame = "throw" THEN "throw"
  ELSE IF isInFrame # "true" /\ (~Truthy(Get(config, "skipFirefox")) \/ ~isFirefox)
  THEN "true" ELSE "false"

\* isSupported(): evaluates SupportedValue and writes nothing.
isSupported ==
  /\ SupportedValue \in {"true", "false", "throw"}
  /\ UNCHANGED vars

(***************************************************************************)
(* The page: what the host supplies and what the browser reports.          *)
(***************************************************************************)
OriginalAddress == "https://example.edu/lesson"
ChromeAgent == << "Mozilla/5.0", "AppleWebKit/537.36", "Chrome/120.0", "Safari/537.36" >>
FirefoxAgent == << "Mozilla/5.0", "Gecko/20100101", "Firefox", "/121.0" >>

\* window before the script is evaluated: aboutBlankConfig unset, or one of these.
HostPages ==
  { EmptyObject,
    [ aboutBlankConfig |-> [ enabled |-> JsFalse ] ],
    [ aboutBlankConfig |-> [ disguise |-> [ title |-> JsStr(CustomTitle) ],
                             protection |-> [ confirmationMessage |-> JsStr(CustomMessage) ] ] ] }

\* Registered without the test of config.enabled.
RegisteredAlways(cfg, readyState) ==
  IF readyState = "loading" THEN "listener" ELSE "timer"

\* Lines 238-246: which deferred launch the evaluation registers.
Registered(cfg, readyState) ==
  IF ~Truthy(Get(cfg, "enabled")) THEN "none"
  ELSE IF readyState = "loading" THEN "listener"
  ELSE "timer"

\* The state right after the script has been evaluated on a page.
Evaluated(pages) ==
  /\ hostGlobals \in pages
  /\ config = MergeConfig(defaultConfig, hostGlobals)
  /\ topAccess \in {"top", "nested", "throws"}
  /\ userAgent \in {ChromeAgent, FirefoxAgent}
  /\ \E readyState \in {"loading", "interactive", "complete"} :
       trigger = Registered(config, readyState)
  /\ location = OriginalAddress
  /\ closed = FALSE
  /\ windows = <<>>
  /\ popup = NoPopup
  /\ currentUrl = NoUrl
  /\ console = <<>>
  /\ alerts = <<>>
  /\ uncaught = FALSE
  /\ openCalls = 0
  /\ closeCalls = 0
  /\ timers = 0
  /\ replaceLog = <<>>
  /\ launches = 0
  /\ configCalls = 0

Init == Evaluated(HostPages)

Next ==
  \/ Launch
  \/ AutoLaunch
  \/ Phase2
  \/ SetConfig
  \/ enable
  \/ disable
  \/ isSupported

Spec == Init /\ [][Next]_vars

(***************************************************************************)
(* The configuration resolver on its own: every partial record a host page *)
(* can supply over the default leaves, resolved at evaluation and resolved *)
(* again over its own result.                                              *)
(***************************************************************************)
\* The partial objects over the leaves `leaves`, each supplied leaf taking one of
\* the values choices[leaf].
PartialsOver(leaves, choices) ==
  UNION { [ supplied -> UNION { choices[l] : l \in supplied } ] : supplied \in SUBSET leaves }

WellTyped(obj, choices) == \A l \in DOMAIN obj : obj[l] \in choices[l]

TopChoices == [ l \in TopLeaves |-> {JsTrue, JsFalse} ]
DisguiseChoices ==
  [ title |-> {JsStr(CustomTitle)}, favicon |-> {JsStr(""), JsStr("https://example.edu/icon.png")} ]
RedirectChoices ==
  [ enabled |-> {JsTrue, JsFalse}, urls |-> {JsArray(<<>>)} ]
ProtectionChoices ==
  [ exitConfirmation |-> {JsTrue, JsFalse}, confirmationMessage |-> {JsStr(CustomMessage)} ]
GroupChoices ==
  [ disguise |-> DisguiseChoices, redirect |-> RedirectChoices, protection |-> ProtectionChoices ]

PartialGroup(g) ==
  { obj \in PartialsOver(DOMAIN GroupChoices[g], GroupChoices[g]) : WellTyped(obj, GroupChoices[g]) }

PartialTop == { obj \in PartialsOver(TopLeaves, TopChoices) : WellTyped(obj, TopChoices) }

\* A top-level partial extended with the groups in gs, each a partial group.
WithGroups(top, gs) ==
  { ObjectAssign(top, grp) :
      grp \in { f \in [ gs -> UNION { PartialGroup(g) : g \in gs } ] :
                  \A g \in gs : f[g] \in PartialGroup(g) } }

AllPartials ==
  UNION { WithGroups(top, gs) : top \in PartialTop, gs \in SUBSET Groups }

AllHostPages == {EmptyObject} \cup { [ aboutBlankConfig |-> p ] : p \in AllPartials }

InitMerge ==
  /\ Evaluated(AllHostPages)
  /\ topAccess = "top"
  /\ userAgent = ChromeAgent

\* The resolver applied once more, to its own result.
Remerge ==
  /\ config' = MergeConfig(config, hostGlobals)
  /\ UNCHANGED <<hostGlobals, topAccess, userAgent, trigger, location, closed,
                 windows, popup, currentUrl, console, alerts, uncaught,
                 openCalls, closeCalls, timers, replaceLog, launches, configCalls>>

NextMerge == Remerge

SpecMerge == InitMerge /\ [][NextMerge]_vars

(***************************************************************************)
(* Properties.                                                             *)
(***************************************************************************)
\* A step that runs launch(), manual or automatic.
LaunchStep == launches' = launches + 1

\* A step that runs the Phase 2 callback.
Phase2Step == timers' = timers - 1

\* The page's situation, as the browser knows it.
Nested == topAccess \in {"nested", "throws"}
IsFirefoxBrowser == userAgent = FirefoxAgent

\* The elements of a sequence of DOM nodes with the given tag.
Tagged(nodes, tag) == { i \in 1..Len(nodes) : nodes[i].tag = tag }

\* The launch() of this step left the original context as it was.
OriginalUntouched ==
  /\ closeCalls' = closeCalls
  /\ timers' = timers
  /\ location' = location
  /\ closed' = closed

\* The launch() of this step opened nothing and touched no document.
NothingOpened ==
  /\ openCalls' = openCalls
  /\ windows' = windows
  /\ popup' = NoPopup

\* The handle the launch() of this step obtained is null or reports closed.
HandleUnusable ==
  \/ popup'.kind = "null"
  \/ popup'.kind = "window" /\ windows'[popup'.id].closed

\* C1: a launch() whose window.open returns null or a closed handle shows the
\* popups-blocked alert and aborts: the handle's document (if any) stays blank, the
\* earlier windows are as they were, no close is requested, no Phase 2 timer is
\* scheduled and the original address is unchanged; and no later step ever writes
\* the document of a handle that reported closed.
C1_BlockedLaunchAborts ==
  [][ /\ (LaunchStep /\ HandleUnusable) =>
           /\ alerts' = <<AlertPopups>>
           /\ console' = <<>>
           /\ ~uncaught'
           /\ popup'.kind = "window" => windows'[popup'.id].doc = BlankDoc
           /\ SubSeq(windows', 1, Len(windows)) = windows
           /\ OriginalUntouched
      /\ \A i \in 1..Len(windows') :
           windows'[i].closed => windows'[i].doc = BlankDoc ]_vars

C1_Witness ==
  /\ launches > 0
  /\ popup.kind = "window"
  /\ windows[popup.id].closed
  /\ alerts = <<AlertPopups>>

\* C2: when the Phase 2 callback runs with the original context closed it attempts
\* no navigation; with it open, the replace() calls follow the fixed order
\* chrome://newtab/, about:newtab, about:blank, stop at the first that does not
\* throw, exactly that one destination becomes the address, and about:blank is
\* never refused.
C2_FallbackOrder ==
  [][ Phase2Step =>
        IF closed
        THEN replaceLog' = <<>> /\ location' = location
        ELSE LET order == <<ChromeNewTab, AboutNewTab, AboutBlank>>
                 n == Len(replaceLog')
             IN /\ n \in 1..3
                /\ \A i \in 1..n : replaceLog'[i].url = order[i]
                /\ \A i \in 1..n : replaceLog'[i].threw <=> (i < n)
                /\ location' = order[n]
                /\ ~uncaught' ]_vars

C2_Witness ==
  /\ Len(replaceLog) = 3
  /\ replaceLog[2].threw
  /\ location = AboutBlank

\* C3: a launch() that finds config.enabled false writes the disabled line and
\* nothing else, whatever the frame and browser checks would say.
C3_DisabledDoesNothing ==
  [][ (LaunchStep /\ ~Truthy(Get(config, "enabled"))) =>
        /\ console' = <<LogDisabled>>
        /\ alerts' = <<>>
        /\ ~uncaught'
        /\ NothingOpened
        /\ OriginalUntouched
        /\ config' = config ]_vars

C3_Witness ==
  /\ trigger = "fired"
  /\ console = <<LogDisabled>>
  /\ Nested
  /\ IsFirefoxBrowser

\* C4: with enabled true, a nested page under skipIframes or Firefox under
\* skipFirefox halts launch() with one diagnostic line and no side effect; when
\* neither enabled check applies launch() goes on to call window.open.
C4_GuardVetoes ==
  [][ (LaunchStep /\ Truthy(Get(config, "enabled"))) =>
        LET frameVeto == Truthy(Get(config, "skipIframes")) /\ Nested
            agentVeto == Truthy(Get(config, "skipFirefox")) /\ IsFirefoxBrowser
        IN IF frameVeto \/ agentVeto
           THEN /\ console' = IF frameVeto THEN <<LogIframe>> ELSE <<LogFirefox>>
                /\ alerts' = <<>>
                /\ ~uncaught'
                /\ NothingOpened
                /\ OriginalUntouched
           ELSE openCalls' = openCalls + 1 ]_vars

C4_Witness ==
  /\ launches > 0
  /\ console = <<LogFirefox>>
  /\ topAccess = "nested"
  /\ ~Truthy(Get(config, "skipIframes"))
  /\ openCalls = 0

\* C5: on a page whose top context cannot be read, isInFrame() returns true,
\* isSupported() returns false, and launch() does what it does on a nested page:
\* skipped with the iframe line under skipIframes, and in no case an exception
\* escapes.
C5_ThrowingTopIsNested ==
  [][ topAccess = "throws" =>
        /\ isInFrame = "true"
        /\ SupportedValue = "false"
        /\ LaunchStep =>
             /\ ~uncaught'
             /\ (Truthy(Get(config, "enabled")) /\ Truthy(Get(config, "skipIframes"))) =>
                  /\ console' = <<LogIframe>>
                  /\ alerts' = <<>>
                  /\ NothingOpened
                  /\ OriginalUntouched ]_vars

C5_Witness ==
  /\ topAccess = "throws"
  /\ launches > 0
  /\ console = <<LogIframe>>

\* The launch() of this step obtained a usable handle and returned normally after
\* line 204, with no error caught.
BuiltPopup ==
  /\ popup'.kind = "window"
  /\ ~windows'[popup'.id].closed
  /\ alerts' = <<>>

\* The document of the popup the launch() of this step opened.
PopupDoc == windows'[popup'.id].doc

\* C6: after a launch() that builds a popup, the popup's title equals
\* config.disguise.title as that launch read it, its body holds exactly one frame,
\* whose source is the original address, and its head holds one favicon link when
\* config.disguise.favicon is a non-empty string and none otherwise.
C6_PopupContents ==
  [][ (LaunchStep /\ BuiltPopup) =>
        LET favicon == Get(config.disguise, "favicon")
        IN /\ JsStr(PopupDoc.title) = Get(config.disguise, "title")
           /\ Len(PopupDoc.body) = 1
           /\ Cardinality(Tagged(PopupDoc.body, "iframe")) = 1
           /\ \A i \in Tagged(PopupDoc.body, "iframe") : PopupDoc.body[i].src = location
           /\ Cardinality(Tagged(PopupDoc.head, "link")) =
                (IF favicon.t = "string" /\ favicon.v # "" THEN 1 ELSE 0) ]_vars

\* The values a host page supplies for leaf l of group g, at evaluation or through
\* setConfig.
SuppliedValues(g, l) ==
  { p[g][l] : p \in { q \in {UserConfig(hostGlobals)} \cup SetConfigArguments :
                        g \in DOMAIN q /\ l \in DOMAIN q[g] } }

\* C7: in every reachable configuration the groups disguise, redirect and
\* protection are present, no leaf of theirs is undefined, and a leaf holds its
\* default unless the host page supplied a value for it.
C7_GroupsComplete ==
  \A g \in Groups :
    /\ g \in DOMAIN config
    /\ \A l \in DOMAIN defaultConfig[g] :
         /\ Get(config[g], l).t # "undefined"
         /\ config[g][l] = defaultConfig[g][l] \/ config[g][l] \in SuppliedValues(g, l)

\* The value leaf l of group g must have after resolving the partial record user
\* over the defaults.
ResolvedLeaf(user, g, l) ==
  IF g \in DOMAIN user /\ l \in DOMAIN user[g] THEN user[g][l] ELSE defaultConfig[g][l]

\* C8: the resolved configuration takes every leaf the partial record supplies and
\* keeps the default of every other leaf, at the top level and inside each group;
\* resolving again over the result changes nothing (the property holds before and
\* after Remerge).
C8_MergeKeepsAndOverrides ==
  LET user == UserConfig(hostGlobals)
  IN /\ DOMAIN config = DOMAIN defaultConfig
     /\ \A k \in TopLeaves :
          config[k] = (IF k \in DOMAIN user THEN user[k] ELSE defaultConfig[k])
     /\ \A g \in Groups :
          /\ DOMAIN config[g] = DOMAIN defaultConfig[g]
          /\ \A l \in DOMAIN defaultConfig[g] : config[g][l] = ResolvedLeaf(user, g, l)

C8_Witness ==
  LET user == UserConfig(hostGlobals)
  IN /\ "disguise" \in DOMAIN user
     /\ DOMAIN user.disguise = {"title"}
     /\ "skipFirefox" \in DOMAIN user
     /\ config.disguise.title = JsStr(CustomTitle)
     /\ config.disguise.favicon = JsStr(DefaultFavicon)
     /\ config.skipFirefox = JsFalse
     /\ config.skipIframes = JsTrue

\* The redirect group as setConfig({redirect:{enabled:false}}) leaves it.
RedirectOff == [ enabled |-> JsFalse ]

\* C9: after setConfig({redirect:{enabled:false}}), a launch() that obtains a usable
\* handle requests no close, schedules no Phase 2 timer and leaves the original
\* address alone; when no error is caught the popup is built: title, one frame,
\* the favicon link and the protection script as configured.
C9_NoDisposalWhenRedirectOff ==
  [][ (LaunchStep /\ config.redirect = RedirectOff
         /\ popup'.kind = "window" /\ ~windows'[popup'.id].closed) =>
        /\ OriginalUntouched
        /\ ~uncaught'
        /\ BuiltPopup =>
             /\ PopupDoc.title = ToDOMString(Get(config.disguise, "title"))
             /\ Cardinality(Tagged(PopupDoc.body, "iframe")) = 1
             /\ Cardinality(Tagged(PopupDoc.head, "link")) =
                  (IF Truthy(Get(config.disguise, "favicon")) THEN 1 ELSE 0)
             /\ Cardinality(Tagged(PopupDoc.head, "script")) =
                  (IF Truthy(Get(config.protection, "exitConfirmation")) THEN 1 ELSE 0) ]_vars

C9_Witness ==
  /\ config.redirect = RedirectOff
  /\ popup.kind = "window"
  /\ Cardinality(Tagged(windows[popup.id].doc.body, "iframe")) = 1
  /\ Cardinality(Tagged(windows[popup.id].doc.head, "script")) = 1
  /\ closeCalls = 0
  /\ timers = 0

\* C10: isSupported() returns true exactly when a launch() with enabled true passes
\* the guard and calls window.open.
C10_SupportedIsGuard ==
  [][ (LaunchStep /\ Truthy(Get(config, "enabled"))) =>
        ((SupportedValue = "true") <=> (openCalls' = openCalls + 1)) ]_vars

\* The launch() of this step called window.open and an error was thrown before the
\* frame was attached: by window.open itself (no handle was assigned) or while a
\* usable handle's document was populated (its body holds no frame).
ThrewInTry ==
  /\ LaunchStep
  /\ openCalls' = openCalls + 1
  /\ \/ popup'.kind = "unassigned"
     \/ /\ popup'.kind = "window"
        /\ ~windows'[popup'.id].closed
        /\ Tagged(PopupDoc.body, "iframe") = {}

\* C11: a launch() in which context creation or document population throws logs the
\* error, shows the generic failure alert and returns normally, with the original
\* context neither closed nor navigated and no Phase 2 timer scheduled; and no
\* launch(), automatic or manual, ends with an uncaught exception.
C11_ErrorsAreCaught ==
  [][ /\ LaunchStep => ~uncaught'
      /\ ThrewInTry =>
           /\ console' = <<ErrFailed>>
           /\ alerts' = <<AlertFailed>>
           /\ OriginalUntouched ]_vars

C11_Witness ==
  /\ trigger = "fired"
  /\ launches = 1
  /\ openCalls = 1
  /\ popup.kind = "window"
  /\ windows[popup.id].doc.body = <<>>
  /\ ~windows[popup.id].closed
  /\ alerts = <<AlertFailed>>
  /\ ~uncaught

\* The fallback destinations of the Phase 2 callback.
FallbackDestinations == {ChromeNewTab, AboutNewTab, AboutBlank}

\* C12: the original context is asked to close, or is navigated, only by a launch()
\* that reads redirect.enabled truthy and has attached the frame to its popup's
\* body; the close request and the scheduling of the Phase 2 callback happen in that
\* same launch, a navigation happens only in a Phase 2 callback, and a Phase 2
\* callback runs only while a close request made earlier is still awaiting it.
C12_DisposalOnlyAfterBuild ==
  [][ /\ (closeCalls' # closeCalls \/ timers' > timers \/ closed' # closed) =>
           /\ LaunchStep
           /\ Truthy(Get(config.redirect, "enabled"))
           /\ popup'.kind = "window"
           /\ Cardinality(Tagged(PopupDoc.body, "iframe")) = 1
           /\ closeCalls' = closeCalls + 1
           /\ timers' = timers + 1
      /\ (location' # location) =>
           /\ Phase2Step
           /\ ~LaunchStep
           /\ location' \in FallbackDestinations
      /\ Phase2Step => (timers > 0 /\ timers <= closeCalls)
      /\ timers' <= closeCalls' ]_vars

C12_Witness ==
  /\ closeCalls = 1
  /\ timers = 0
  /\ location = ChromeNewTab
  /\ Cardinality(Tagged(windows[1].doc.body, "iframe")) = 1

\* C13: a Phase 2 callback leaves every popup as it was (handle, title, head and
\* frame), and no step of any kind writes to or closes a popup opened by an earlier
\* step: disposal acts on the original context alone.
C13_DisposalLeavesPopups ==
  [][ /\ Phase2Step =>
           /\ windows' = windows
           /\ popup' = popup
           /\ currentUrl' = currentUrl
           /\ openCalls' = openCalls
      /\ Len(windows') >= Len(windows)
      /\ SubSeq(windows', 1, Len(windows)) = windows ]_vars

C13_Witness ==
  /\ Len(replaceLog) = 2
  /\ location = AboutNewTab
  /\ popup.kind = "window"
  /\ windows[popup.id].doc.title = DefaultTitle
  /\ Cardinality(Tagged(windows[popup.id].doc.head, "link")) = 1
  /\ Cardinality(Tagged(windows[popup.id].doc.head, "script")) = 1
  /\ windows[popup.id].doc.body[1].src = OriginalAddress
  /\ ~windows[popup.id].closed

\* C14: a setConfig, enable or disable call cancels no pending Phase 2 callback and
\* touches nothing but the configuration; whatever the configuration says when the
\* callback fires, the callback can fire while it is pending and, with the original
\* context still open, it logs, tries the fallback chain and navigates.
C14_ConfigCallsDoNotCancel ==
  [][ /\ (configCalls' # configCalls \/ config' # config) =>
           /\ timers' = timers
           /\ closeCalls' = closeCalls
           /\ location' = location
           /\ closed' = closed
           /\ windows' = windows
      /\ timers > 0 => ENABLED Phase2
      /\ (Phase2Step /\ ~closed) =>
           /\ console' = <<LogRedirect>>
           /\ replaceLog' # <<>>
           /\ location' \in FallbackDestinations ]_vars

C14_Witness ==
  /\ config.redirect = RedirectOff
  /\ closeCalls = 1
  /\ timers = 0
  /\ console = <<LogRedirect>>
  /\ location = AboutBlank

\* Whether a launch() now would pass the guard, from the page's situation and the
\* three flags.
PassesGuard ==
  /\ Truthy(Get(config, "enabled"))
  /\ ~(Truthy(Get(config, "skipIframes")) /\ Nested)
  /\ ~(Truthy(Get(config, "skipFirefox")) /\ IsFirefoxBrowser)

\* C15: every launch() that passes the guard calls window.open exactly once and
\* every other launch() not at all, however many launches went before; a handle it
\* obtains is a new browsing context, never one an earlier call obtained.  So the
\* number of open attempts is the number of guard-passing calls.
C15_OneOpenPerPassingLaunch ==
  [][ LaunchStep =>
        /\ openCalls' = (IF PassesGuard THEN openCalls + 1 ELSE openCalls)
        /\ popup'.kind = "window" =>
             /\ popup'.id = Len(windows) + 1
             /\ Len(windows') = Len(windows) + 1
        /\ popup'.kind # "window" => windows' = windows ]_vars

C15_Witness ==
  /\ launches = 2
  /\ openCalls = 2
  /\ Len(windows) = 2
  /\ popup.id = 2
  /\ \A i \in 1..2 : Cardinality(Tagged(windows[i].doc.body, "iframe")) = 1

\* C16: in a launch() that builds a popup, the frame's source is the address the
\* original context had when the launch began, which is what currentUrl holds, and
\* the launch itself leaves that address unchanged; the Phase 2 callback that later
\* rewrites the address does not rewrite the frame's source.
C16_FrameSourceIsAddressRead ==
  [][ /\ (LaunchStep /\ BuiltPopup) =>
           /\ currentUrl' = location
           /\ location' = location
           /\ \A i \in Tagged(PopupDoc.body, "iframe") : PopupDoc.body[i].src = location
           /\ Tagged(PopupDoc.body, "iframe") # {}
      /\ (Phase2Step /\ location' # location) =>
           \A w \in 1..Len(windows') :
             \A i \in Tagged(windows'[w].doc.body, "iframe") :
               windows'[w].doc.body[i].src = windows[w].doc.body[i].src ]_vars

C16_Witness ==
  /\ launches = 1
  /\ location = AboutBlank
  /\ popup.kind = "window"
  /\ windows[popup.id].doc.body[1].src = OriginalAddress
  /\ currentUrl = OriginalAddress

\* The popup's head holds the disguise and the protection the configuration asks for.
Dressed(doc) ==
  /\ doc.title = ToDOMString(Get(config.disguise, "title"))
  /\ Cardinality(Tagged(doc.head, "link")) =
       (IF Truthy(Get(config.disguise, "favicon")) THEN 1 ELSE 0)
  /\ Cardinality(Tagged(doc.head, "script")) =
       (IF Truthy(Get(config.protection, "exitConfirmation")) THEN 1 ELSE 0)

\* C17: every popup document launch() has started to populate carries its title,
\* its favicon link and its protection script, as configured, whether or not the
\* frame has been attached: a population cut short at the body leaves a dressed
\* document with no frame, and no document holds a frame without being dressed.
C17_DisguiseBeforeFrame ==
  [][ (LaunchStep /\ popup'.kind = "window" /\ ~windows'[popup'.id].closed) =>
        /\ Dressed(PopupDoc)
        /\ Len(PopupDoc.body) <= 1 ]_vars

C17_Witness ==
  /\ popup.kind = "window"
  /\ ~windows[popup.id].closed
  /\ alerts = <<AlertFailed>>
  /\ windows[popup.id].doc.body = <<>>
  /\ windows[popup.id].doc.title = DefaultTitle
  /\ Cardinality(Tagged(windows[popup.id].doc.head, "link")) = 1
  /\ Cardinality(Tagged(windows[popup.id].doc.head, "script")) = 1

\* C18: the head of a built popup holds exactly one onbeforeunload script, whose
\* message is protection.confirmationMessage as that launch read it, when
\* protection.exitConfirmation is true, and no script when it is false; the script
\* sits in the popup's document, after the favicon link when there is one.
C18_ExitProtectionScript ==
  [][ (LaunchStep /\ BuiltPopup) =>
        LET scripts == Tagged(PopupDoc.head, "script")
            wanted == Get(config.protection, "exitConfirmation")
        IN /\ wanted = JsTrue => Cardinality(scripts) = 1
           /\ wanted = JsFalse => scripts = {}
           /\ \A i \in scripts :
                /\ PopupDoc.head[i].handler = "onbeforeunload"
                /\ JsStr(PopupDoc.head[i].message) =
                     Get(config.protection, "confirmationMessage")
                /\ i = Len(PopupDoc.head)
           /\ Tagged(PopupDoc.body, "script") = {} ]_vars

\* config.enabled as the evaluation resolved it.
EnabledAtEvaluation == Truthy(Get(MergeConfig(defaultConfig, hostGlobals), "enabled"))

\* C19: the evaluation registers the listener or the timer when enabled is true and
\* nothing when it is false; the registered trigger runs launch() once and is then
\* spent, and nothing registers a trigger later.  A trigger that fires after
\* disable() runs a launch() that writes the disabled line and does nothing else.
C19_TriggerOnce ==
  [][ /\ (trigger = "none") <=> ~EnabledAtEvaluation
      /\ trigger \in {"none", "listener", "timer", "fired"}
      /\ (trigger' # trigger) =>
           /\ trigger \in {"listener", "timer"}
           /\ trigger' = "fired"
           /\ LaunchStep
      /\ (trigger' # trigger /\ ~Truthy(Get(config, "enabled"))) =>
           /\ console' = <<LogDisabled>>
           /\ alerts' = <<>>
           /\ NothingOpened
           /\ OriginalUntouched ]_vars

C19_Witness ==
  /\ EnabledAtEvaluation
  /\ trigger = "fired"
  /\ configCalls = 1
  /\ launches = 1
  /\ config.enabled = JsFalse
  /\ console = <<LogDisabled>>
  /\ windows = <<>>

====
